---- MODULE Spec2Model ----
(***************************************************************************)
(* LiveCandles: src/app/page.tsx, the CombinedLiveHistoricalChart          *)
(* component.  The model covers the historical load (fetch, parse, sort,   *)
(* de-duplicate, setData), the two React effects ([theme] and              *)
(* [isHistoricalLoaded]), the WebSocket handlers and the tick-to-candle    *)
(* aggregation kept in currentCandleRef.                                   *)
(*                                                                         *)
(* Encoding conventions                                                    *)
(*  - A JavaScript string read from the network is a sequence of one-      *)
(*    character strings, so that parseFloat / Date.parse are computed and  *)
(*    not looked up.                                                       *)
(*  - A JavaScript number is an integer; NaN is the integer NaN below,     *)
(*    which is outside the range of every real value of the model (all     *)
(*    prices and all times are >= 0), and the Js* operators give it the    *)
(*    arithmetic and the comparisons NaN has in JavaScript.                *)
(*  - `T | null` is a sequence of length at most one: <<>> is null.        *)
(***************************************************************************)
EXTENDS Integers, Sequences, FiniteSets, TLC

VARIABLES
    theme,              \* useTheme() value of the latest render
    depTheme,           \* the [theme] dependency of the effect run last
    depLoaded,          \* the [isHistoricalLoaded] dependency of the effect run last
    mounted,            \* the component is mounted
    themeChanges,       \* number of theme switches so far
    chart,              \* the chart created by the latest run of the [theme] effect
    removed,            \* charts on which chart.remove() was called
    candleSeriesRef,    \* candleSeriesRef.current: the chart whose candle series it is
    series,             \* per chart: the data of its candlestick series
    volumeSeries,       \* per chart: the data of its histogram series
    load,               \* per chart: where its loadHistoricalData() call is
    settled,            \* history: the loadHistoricalData() call that returned last
    isHistoricalLoaded, \* useState(false)
    status,             \* useState("Loading historical data...")
    errorMessage,       \* useState<string | null>(null)
    currentPrice,       \* useState<number | null>(null)
    wsRef,              \* wsRef.current: <<>> or <<"ws">>
    readyState,         \* the socket's readyState, and "none" before it exists
    heartbeatInterval,  \* the interval handle is set
    sent,               \* the last command sent on the socket
    closeRequested,     \* history: close() was called on the socket wsRef.current holds
    currentCandleRef,   \* currentCandleRef.current: <<>> or <<CandleAggregator>>
    data,               \* the PriceEvent handled last (ws.onmessage), <<>> before
    candleData,         \* the candle handed to series.update() last, <<>> before
    nMsgs,              \* number of messages handled so far
    run,                \* history: the matching ticks received since the bucket last changed
    seriesLog,          \* history, per chart: the order of setData and update calls on its series
    tzOffset            \* new Date().getTimezoneOffset(), minutes

vars == <<theme, depTheme, depLoaded, mounted, themeChanges, chart, removed,
          candleSeriesRef, series, volumeSeries, load, settled,
          isHistoricalLoaded, status, errorMessage, currentPrice, wsRef, readyState,
          heartbeatInterval, sent, closeRequested, currentCandleRef, data,
          candleData, nMsgs, run, seriesLog, tzOffset>>

-----------------------------------------------------------------------------
(* Bounds of the model.                                                    *)

MaxMsgs == 2

MaxLiveMsgs == 4

MaxWideMsgs == 2

MaxThemeChanges == 1

MaxBatch == 3

MaxTimestamp == 125

(* Program constants.                                                      *)

CANDLE_INTERVAL == 60

Charts == 1..(MaxThemeChanges + 1)

-----------------------------------------------------------------------------
(* JavaScript numbers.                                                     *)

NaN == 0 - 1

IsNaN(x) == x = NaN

\* a === b on numbers: NaN equals nothing, itself included
JsStrictEq(a, b) == ~IsNaN(a) /\ ~IsNaN(b) /\ a = b

\* a - b
JsSub(a, b) == IF IsNaN(a) \/ IsNaN(b) THEN NaN ELSE a - b

\* Math.floor(a / b) for an integer a and a positive integer b
JsFloorDiv(a, b) == IF IsNaN(a) THEN NaN ELSE a \div b

\* a >= b: false when either side is NaN
JsGeq(a, b) == ~IsNaN(a) /\ ~IsNaN(b) /\ a >= b

Max(a, b) == IF a >= b THEN a ELSE b

Min(a, b) == IF a <= b THEN a ELSE b

Digits == <<"0", "1", "2", "3", "4", "5", "6", "7", "8", "9">>

IsDigit(c) == \E i \in 1..10 : Digits[i] = c

DigitValue(c) == (CHOOSE i \in 1..10 : Digits[i] = c) - 1

\* the length of the longest prefix of s made of digits
RECURSIVE DigitPrefixLen(_)
DigitPrefixLen(s) ==
    IF s = <<>> \/ ~IsDigit(Head(s)) THEN 0 ELSE 1 + DigitPrefixLen(Tail(s))

\* the decimal value of a sequence of digits
RECURSIVE DecimalValue(_)
DecimalValue(s) ==
    IF s = <<>> THEN 0
    ELSE DecimalValue(SubSeq(s, 1, Len(s) - 1)) * 10 + DigitValue(s[Len(s)])

\* parseFloat(s): the number its longest numeric prefix denotes, NaN when
\* there is none; what follows the prefix is ignored.
ParseFloat(s) ==
    LET n == DigitPrefixLen(s)
    IN  IF n = 0 THEN NaN ELSE DecimalValue(SubSeq(s, 1, n))

\* Date.parse(s) in milliseconds.  A datetime of the feed is written here as
\* its minute count since the epoch; with the "Z" the code appends, the
\* string parses when it is digits followed by "Z", and is NaN otherwise.
DateParse(s) ==
    IF Len(s) >= 2 /\ s[Len(s)] = "Z" /\ DigitPrefixLen(s) = Len(s) - 1
    THEN DecimalValue(SubSeq(s, 1, Len(s) - 1)) * 60 * 1000
    ELSE NaN

-----------------------------------------------------------------------------
(* Time Bucketer.                                                          *)

convertToLocalTime(utcTimestamp) ==
    LET timezoneOffsetSeconds == tzOffset * 60
    IN  JsSub(utcTimestamp, timezoneOffsetSeconds)

\* variant: rounds up to the next interval boundary (Math.ceil)
getCandleTimestamp_Ceil(timestamp) ==
    ((timestamp + CANDLE_INTERVAL - 1) \div CANDLE_INTERVAL) * CANDLE_INTERVAL

getCandleTimestamp(timestamp) ==
    (timestamp \div CANDLE_INTERVAL) * CANDLE_INTERVAL

-----------------------------------------------------------------------------
(* Historical Series Normalizer: loadHistoricalData, lines 140-182.        *)

\* (v: TwelveDataCandle) => CandlestickData, lines 141-152
CandleOfRecord(v) ==
    LET utcTimestamp == JsFloorDiv(DateParse(Append(v.datetime, "Z")), 1000)
    IN  [time  |-> convertToLocalTime(utcTimestamp),
         open  |-> ParseFloat(v.open),
         high  |-> ParseFloat(v.high),
         low   |-> ParseFloat(v.low),
         close |-> ParseFloat(v.close)]

\* (v: TwelveDataCandle) => HistogramData, lines 156-170
VolumeOfRecord(v) ==
    LET utcTimestamp == JsFloorDiv(DateParse(Append(v.datetime, "Z")), 1000)
        open  == ParseFloat(v.open)
        close == ParseFloat(v.close)
    IN  [time  |-> convertToLocalTime(utcTimestamp),
         value |-> ParseFloat(v.volume),
         color |-> IF JsGeq(close, open)
                   THEN "rgba(38, 166, 154, 0.5)"
                   ELSE "rgba(239, 83, 80, 0.5)"]

\* data.values.map(f)
MapCandles(values) == [i \in 1..Len(values) |-> CandleOfRecord(values[i])]

MapVolumes(values) == [i \in 1..Len(values) |-> VolumeOfRecord(values[i])]

\* x put into the sorted sequence s after every entry whose time is <= its own
RECURSIVE InsertByTime(_, _)
InsertByTime(s, x) ==
    IF s = <<>> THEN <<x>>
    ELSE IF s[Len(s)].time <= x.time THEN Append(s, x)
    ELSE Append(InsertByTime(SubSeq(s, 1, Len(s) - 1), x), s[Len(s)])

\* items.sort((a, b) => a.time - b.time) with a consistent comparator: the
\* sort is stable, entries of equal time keep their order.
RECURSIVE StableSortByTime(_)
StableSortByTime(items) ==
    IF items = <<>> THEN <<>>
    ELSE InsertByTime(StableSortByTime(SubSeq(items, 1, Len(items) - 1)),
                      items[Len(items)])

SeqPermutations(items) ==
    LET n == Len(items)
        P == {p \in [1..n -> 1..n] : \A i, j \in 1..n : i /= j => p[i] /= p[j]}
    IN  {[i \in 1..n |-> items[p[i]]] : p \in P}

\* The results items.sort(...) may have.  With a NaN time the comparator
\* returns NaN (read as 0) against every entry and is not a consistent
\* comparator: the order is then implementation-defined.
SortOutcomes(items) ==
    IF \E i \in 1..Len(items) : IsNaN(items[i].time)
    THEN SeqPermutations(items)
    ELSE {StableSortByTime(items)}

\* self.findIndex((t) => t.time === time), 1-based, 0 for not found
FindIndex(self, time) ==
    IF \E j \in 1..Len(self) : JsStrictEq(self[j].time, time)
    THEN CHOOSE j \in 1..Len(self) :
            /\ JsStrictEq(self[j].time, time)
            /\ \A k \in 1..(j - 1) : ~JsStrictEq(self[k].time, time)
    ELSE 0

\* self.filter((item, index, self) => index === self.findIndex(...)), from index on
RECURSIVE DedupFrom(_, _)
DedupFrom(self, index) ==
    IF index > Len(self) THEN <<>>
    ELSE IF index = FindIndex(self, self[index].time)
         THEN <<self[index]>> \o DedupFrom(self, index + 1)
         ELSE DedupFrom(self, index + 1)

\* variant: of the entries of one time, the last is kept
Dedup_KeepLast(self) ==
    LET keep == {i \in 1..Len(self) :
                    /\ ~IsNaN(self[i].time)
                    /\ \A j \in (i + 1)..Len(self) : ~JsStrictEq(self[j].time, self[i].time)}
        RECURSIVE From(_)
        From(i) == IF i > Len(self) THEN <<>>
                   ELSE IF i \in keep THEN <<self[i]>> \o From(i + 1) ELSE From(i + 1)
    IN  From(1)

Dedup(self) == DedupFrom(self, 1)

\* lines 173-177 (candles) and 178-182 (volumes): the sequences the sort and
\* the filter may leave
Normalized(items) == {Dedup(sorted) : sorted \in SortOutcomes(items)}

-----------------------------------------------------------------------------
(* Series Sink: the chart library's series.setData() and series.update().  *)

replaceAll(s, candles) == candles

\* variant: the candle is always appended
upsertLast_AlwaysAppend(s, candle) == Append(s, candle)

upsertLast(s, candle) ==
    IF s /= <<>> /\ s[Len(s)].time = candle.time
    THEN [s EXCEPT ![Len(s)] = candle]
    ELSE Append(s, candle)

-----------------------------------------------------------------------------
(* Live Candle Aggregator: ws.onmessage, lines 251-300.                    *)

\* variant: the symbol is not compared
IsSubscribedPrice_AnySymbol(msg) == msg.event = "price"

\* line 254
IsSubscribedPrice(msg) == msg.event = "price" /\ msg.symbol = "BTC/USD"

\* variant: the candle is stamped with the tick's own time
NewCandle_Unaligned(candleTime, price, timestamp) ==
    [timestamp  |-> timestamp,
     open       |-> price,
     high       |-> price,
     low        |-> price,
     close      |-> price,
     lastUpdate |-> timestamp]

\* lines 267-274
NewCandle(candleTime, price, timestamp) ==
    [timestamp  |-> candleTime,
     open       |-> price,
     high       |-> price,
     low        |-> price,
     close      |-> price,
     lastUpdate |-> timestamp]

\* variant: the high is left as it was
UpdateCandle_NoHigh(cur, price, timestamp) ==
    [cur EXCEPT !.low        = Min(cur.low, price),
                !.close      = price,
                !.lastUpdate = timestamp]

\* lines 277-286
UpdateCandle(cur, price, timestamp) ==
    [cur EXCEPT !.high       = Max(cur.high, price),
                !.low        = Min(cur.low, price),
                !.close      = price,
                !.lastUpdate = timestamp]

\* variant: a tick of an older bucket is folded into the current candle
Aggregate_FoldsOlder(ref, candleTime, price, timestamp) ==
    IF ref = <<>> \/ ref[1].timestamp < candleTime
    THEN NewCandle(candleTime, price, timestamp)
    ELSE UpdateCandle(ref[1], price, timestamp)

\* variant: every tick starts a candle
Aggregate_AlwaysNew(ref, candleTime, price, timestamp) ==
    NewCandle(candleTime, price, timestamp)

\* lines 262-287: the value of currentCandleRef.current after the tick
Aggregate(ref, candleTime, price, timestamp) ==
    IF ref = <<>> \/ ref[1].timestamp /= candleTime
    THEN NewCandle(candleTime, price, timestamp)
    ELSE UpdateCandle(ref[1], price, timestamp)

\* variant: the candle is handed over at its UTC time
CandleDataOf_UtcTime(cur, candleTime) ==
    [time  |-> candleTime,
     open  |-> cur.open,
     high  |-> cur.high,
     low   |-> cur.low,
     close |-> cur.close]

\* lines 290-296
CandleDataOf(cur, candleTime) ==
    [time  |-> convertToLocalTime(candleTime),
     open  |-> cur.open,
     high  |-> cur.high,
     low   |-> cur.low,
     close |-> cur.close]

-----------------------------------------------------------------------------
(* Inputs.                                                                 *)

\* getTimezoneOffset() of the zones the component is run in: UTC+1 for the
\* lifecycle, UTC+1 and UTC for the live phase alone
TzOffsets == {0 - 60}

LiveTzOffsets == {0 - 60, 0}

Prices == {90, 95, 100, 110}

Timestamps == {0, 30, 59, 60, 125}

PriceEvent(e, s, t, p) == [event |-> e, symbol |-> s, timestamp |-> t, price |-> p]

\* what the feed may push: ticks of the subscribed symbol, a tick of another
\* symbol, and an event that is not a price
Messages ==
    {PriceEvent("price", "BTC/USD", 0, 110), PriceEvent("price", "BTC/USD", 60, 90),
     PriceEvent("price", "BTC/USD", 60, 110)}
    \cup {PriceEvent("price", "ETH/USD", 60, 110),
          PriceEvent("subscribe-status", "BTC/USD", 60, 90)}

\* ticks of the subscribed symbol over more prices and seconds
LiveMessages ==
    {PriceEvent("price", "BTC/USD", t, p) : t \in Timestamps, p \in Prices}

\* ticks of the subscribed symbol at every second up to MaxTimestamp
WideMessages ==
    {PriceEvent("price", "BTC/USD", t, 100) : t \in 0..MaxTimestamp}

TwelveDataCandle(dt, o, h, l, c, v) ==
    [datetime |-> dt, open |-> o, high |-> h, low |-> l, close |-> c, volume |-> v]

s90 == <<"9", "0">>

s100 == <<"1", "0", "0">>

s110 == <<"1", "1", "0">>

sBad == <<"n", "/", "a">>

\* a response body: values is <<>> when the key is absent and <<list>> when
\* present; message and code are <<>> when absent
Response(values, message, code) ==
    [values |-> values, message |-> message, code |-> code]

\* the bodies the historical source answers with
Responses ==
    { \* out of order, with a repeated datetime
      Response(<< <<TwelveDataCandle(<<"1">>, s100, s110, s90, s110, s90),
                    TwelveDataCandle(<<"0">>, s90, s100, s90, s100, s100),
                    TwelveDataCandle(<<"1">>, s110, s110, s100, s100, s110)>> >>,
               <<>>, <<>>),
      \* an unparsable datetime in the first record
      Response(<< <<TwelveDataCandle(sBad, s90, s100, s90, s100, s100),
                    TwelveDataCandle(<<"0">>, s100, s110, s90, s110, s90)>> >>,
               <<>>, <<>>),
      \* no usable records
      Response(<< <<>> >>, <<>>, <<>>),
      Response(<<>>, <<"Invalid API key">>, <<"401">>),
      Response(<<>>, <<>>, <<"400">>) }

-----------------------------------------------------------------------------
(* React.                                                                  *)

\* a state setter: an update of an unmounted component is dropped
SetState(cur, new) == IF mounted THEN new ELSE cur

\* a || b on optional strings: a when it is present and not empty
JsOr(a, b) == IF a /= <<>> /\ a[1] /= "" THEN a ELSE b

\* variant: the cleanup leaves the socket as it is
CloseSocket_Noop(rs) == rs

\* ws.close(): a socket that is connecting or open starts closing
CloseSocket(rs) == IF rs \in {"connecting", "open"} THEN "closing" ELSE rs

\* history: the call for chart g returned with `outcome`, having read the
\* body `resp` (<<>> when the fetch gave none) and computed candles and volumes
Settled(g, outcome, resp, candles, volumes) ==
    <<[chart |-> g, outcome |-> outcome, data |-> resp,
       candles |-> candles, volumes |-> volumes]>>

\* variant: the aggregator starts on a candle of bucket 0
InitialCandleRef_Seeded ==
    <<[timestamp |-> 0, open |-> 100, high |-> 110, low |-> 90, close |-> 100,
       lastUpdate |-> 0]>>

\* line 56: useRef<CandleAggregator | null>(null)
InitialCandleRef == <<>>

Init ==
    /\ theme = "light"
    /\ depTheme = "light"
    /\ depLoaded = FALSE
    /\ mounted = TRUE
    /\ themeChanges = 0
    /\ chart = 1
    /\ removed = {}
    /\ candleSeriesRef = 1
    /\ series = [g \in Charts |-> <<>>]
    /\ volumeSeries = [g \in Charts |-> <<>>]
    /\ load = [g \in Charts |-> IF g = 1 THEN "fetching" ELSE "idle"]
    /\ settled = <<>>
    /\ isHistoricalLoaded = FALSE
    /\ status = "Loading historical data..."
    /\ errorMessage = <<>>
    /\ currentPrice = <<>>
    /\ wsRef = <<>>
    /\ readyState = "none"
    /\ heartbeatInterval = FALSE
    /\ sent = "none"
    /\ closeRequested = FALSE
    /\ currentCandleRef = InitialCandleRef
    /\ data = <<>>
    /\ candleData = <<>>
    /\ nMsgs = 0
    /\ run = <<>>
    /\ seriesLog = [g \in Charts |-> <<>>]
    /\ tzOffset \in TzOffsets

reactVars == <<theme, depTheme, depLoaded, mounted, themeChanges>>

chartVars == <<chart, removed, candleSeriesRef>>

socketVars == <<wsRef, readyState, heartbeatInterval, sent, closeRequested>>

tickVars == <<currentCandleRef, data, candleData, nMsgs, run>>

\* history: the call `op` on a series, consecutive updates written once
Logged(log, op) ==
    IF log /= <<>> /\ log[Len(log)] = op /\ op = "update" THEN log ELSE Append(log, op)

\* history: the index of the interval a timestamp lies in
BucketIndex(t) ==
    CHOOSE k \in 0..t : k * CANDLE_INTERVAL <= t /\ t < (k + 1) * CANDLE_INTERVAL

\* history: the run of ticks in one bucket, extended by a tick
RunAfter(r, timestamp, price) ==
    IF r /= <<>> /\ r[1].bucket = BucketIndex(timestamp)
    THEN <<[r[1] EXCEPT !.prices = Append(@, price)]>>
    ELSE <<[bucket |-> BucketIndex(timestamp), prices |-> <<price>>]>>

\* the user (or the system) switches the theme: useTheme() gives the other value
ThemeChange ==
    /\ mounted
    /\ themeChanges < MaxThemeChanges
    /\ theme' = IF theme = "light" THEN "dark" ELSE "light"
    /\ themeChanges' = themeChanges + 1
    /\ UNCHANGED <<depTheme, depLoaded, mounted, chartVars, series, volumeSeries,
                   load, settled, isHistoricalLoaded, status, errorMessage,
                   currentPrice, socketVars, tickVars, seriesLog, tzOffset>>

\* React commits a render whose dependencies changed: the cleanups of the
\* effects to re-run (lines 205-208, 307-313), then the effects in order
\* (lines 69-203, lines 212-220).  chart.remove() frees the data of the
\* chart's series.
Commit ==
    LET themeChanged  == theme /= depTheme
        loadedChanged == isHistoricalLoaded /= depLoaded
        \* cleanup of the [theme] effect: wsRef.current?.close(); chart.remove()
        rs1 == IF themeChanged /\ wsRef /= <<>> THEN CloseSocket(readyState) ELSE readyState
        \* cleanup of the [isHistoricalLoaded] effect, when its last run got past the guard
        wsCleanup == loadedChanged /\ depLoaded /\ wsRef /= <<>>
        rs2 == IF wsCleanup THEN CloseSocket(rs1) ELSE rs1
        \* the [isHistoricalLoaded] effect gets past its guard (line 213)
        attach == loadedChanged /\ isHistoricalLoaded
    IN  /\ mounted
        /\ themeChanged \/ loadedChanged
        /\ depTheme' = theme
        /\ depLoaded' = isHistoricalLoaded
        /\ IF themeChanged
           THEN /\ removed' = removed \cup {chart}
                /\ series' = [series EXCEPT ![chart] = <<>>]
                /\ chart' = chart + 1
                /\ candleSeriesRef' = chart + 1
                /\ load' = [load EXCEPT ![chart + 1] = "fetching"]
                /\ status' = "Loading historical data..."
           ELSE UNCHANGED <<removed, series, chart, candleSeriesRef, load, status>>
        /\ heartbeatInterval' = IF wsCleanup THEN FALSE ELSE heartbeatInterval
        /\ readyState' = IF attach THEN "connecting" ELSE rs2
        /\ wsRef' = IF attach THEN <<"ws">> ELSE wsRef
        /\ closeRequested' = IF attach THEN FALSE
                             ELSE \/ closeRequested
                                  \/ themeChanged /\ wsRef /= <<>>
                                  \/ wsCleanup
        /\ UNCHANGED <<theme, mounted, themeChanges, volumeSeries, settled,
                       isHistoricalLoaded, errorMessage, currentPrice, sent,
                       tickVars, seriesLog, tzOffset>>

\* the component unmounts: both cleanups run
Unmount ==
    /\ mounted
    /\ mounted' = FALSE
    /\ removed' = removed \cup {chart}
    /\ series' = [series EXCEPT ![chart] = <<>>]
    /\ readyState' = IF wsRef /= <<>> THEN CloseSocket(readyState) ELSE readyState
    /\ heartbeatInterval' = FALSE
    /\ closeRequested' = (closeRequested \/ wsRef /= <<>>)
    /\ UNCHANGED <<theme, depTheme, depLoaded, themeChanges, chart, candleSeriesRef,
                   volumeSeries, load, settled, isHistoricalLoaded, status,
                   errorMessage, currentPrice, wsRef, sent, tickVars, seriesLog,
                   tzOffset>>

-----------------------------------------------------------------------------
(* loadHistoricalData, lines 120-201, from the point the fetch settles.    *)

\* fetch() or response.json() rejects: the catch block, lines 194-200
FetchRejected(g) ==
    /\ load[g] = "fetching"
    /\ load' = [load EXCEPT ![g] = "returned"]
    /\ settled' = Settled(g, "failed", <<>>, <<>>, <<>>)
    /\ status' = SetState(status, "Error")
    /\ errorMessage' = SetState(errorMessage, <<"Failed to fetch">>)
    /\ UNCHANGED <<reactVars, chartVars, series, volumeSeries, isHistoricalLoaded,
                   currentPrice, socketVars, tickVars, seriesLog, tzOffset>>

\* line 130
NoValues(resp) == IF resp.values = <<>> THEN TRUE ELSE resp.values[1] = <<>>

\* variant: the code is preferred to the message
ErrorMsgOf_CodeFirst(resp) ==
    JsOr(resp.code, JsOr(resp.message, <<"No data available">>))

\* line 132
ErrorMsgOf(resp) == JsOr(resp.message, JsOr(resp.code, <<"No data available">>))

\* the body has no values: lines 130-136
LoadNoData(g, resp) ==
    /\ load[g] = "fetching"
    /\ NoValues(resp)
    /\ load' = [load EXCEPT ![g] = "returned"]
    /\ settled' = Settled(g, "nodata", <<resp>>, <<>>, <<>>)
    /\ status' = SetState(status, "Error")
    /\ errorMessage' = SetState(errorMessage, ErrorMsgOf(resp))
    /\ UNCHANGED <<reactVars, chartVars, series, volumeSeries, isHistoricalLoaded,
                   currentPrice, socketVars, tickVars, seriesLog, tzOffset>>

\* the body has values and setData returns: lines 138-193
LoadData(g, resp) ==
    /\ load[g] = "fetching"
    /\ ~NoValues(resp)
    /\ \E candles \in Normalized(MapCandles(resp.values[1])),
          volumes \in Normalized(MapVolumes(resp.values[1])) :
          /\ settled' = Settled(g, "loaded", <<resp>>, candles, volumes)
          /\ series' = IF g \in removed THEN series
                       ELSE [series EXCEPT ![g] = replaceAll(@, candles)]
          /\ currentPrice' = IF Len(candles) > 0
                             THEN SetState(currentPrice, <<candles[Len(candles)].close>>)
                             ELSE currentPrice
    /\ load' = [load EXCEPT ![g] = "returned"]
    /\ seriesLog' = [seriesLog EXCEPT ![g] = Logged(@, "setData")]
    /\ errorMessage' = SetState(errorMessage, <<>>)
    /\ isHistoricalLoaded' = SetState(isHistoricalLoaded, TRUE)
    /\ status' = SetState(status, "Connecting to live data...")
    /\ UNCHANGED <<reactVars, chartVars, volumeSeries, socketVars, tickVars, tzOffset>>

\* the body has values and setData throws because its chart was removed
\* meanwhile: lines 138-184, then the catch block
LoadDataDisposed(g, resp) ==
    /\ load[g] = "fetching"
    /\ ~NoValues(resp)
    /\ g \in removed
    /\ load' = [load EXCEPT ![g] = "returned"]
    /\ settled' = Settled(g, "failed", <<resp>>, <<>>, <<>>)
    /\ status' = SetState(status, "Error")
    /\ errorMessage' = SetState(errorMessage, <<"Object is disposed">>)
    /\ UNCHANGED <<reactVars, chartVars, series, volumeSeries, isHistoricalLoaded,
                   currentPrice, socketVars, tickVars, seriesLog, tzOffset>>

-----------------------------------------------------------------------------
(* The WebSocket handlers, lines 222-305.                                  *)

\* ws.onopen, lines 222-240
WsOpen ==
    /\ readyState = "connecting"
    /\ readyState' = "open"
    /\ status' = SetState(status, "Live")
    /\ sent' = "subscribe"
    /\ heartbeatInterval' = TRUE
    /\ UNCHANGED <<reactVars, chartVars, series, volumeSeries, load, settled,
                   isHistoricalLoaded, errorMessage, currentPrice, wsRef,
                   closeRequested, tickVars, seriesLog, tzOffset>>

\* the interval callback, lines 234-239
Heartbeat ==
    /\ heartbeatInterval
    /\ sent' = IF readyState = "open" THEN "heartbeat" ELSE sent
    /\ UNCHANGED <<reactVars, chartVars, series, volumeSeries, load, settled,
                   isHistoricalLoaded, status, errorMessage, currentPrice, wsRef,
                   readyState, heartbeatInterval, closeRequested, tickVars,
                   seriesLog, tzOffset>>

\* ws.onmessage, lines 251-300; a message event is dispatched only while the
\* socket is open
WsMessage(msg) ==
    /\ readyState = "open"
    /\ nMsgs' = nMsgs + 1
    /\ data' = <<msg>>
    /\ IF IsSubscribedPrice(msg)
       THEN LET price      == msg.price
                timestamp  == msg.timestamp
                candleTime == getCandleTimestamp(timestamp)
                cur        == Aggregate(currentCandleRef, candleTime, price, timestamp)
                cd         == CandleDataOf(cur, candleTime)
            IN  /\ currentPrice' = SetState(currentPrice, <<price>>)
                /\ currentCandleRef' = <<cur>>
                /\ candleData' = <<cd>>
                /\ series' = [series EXCEPT ![candleSeriesRef] = upsertLast(@, cd)]
                /\ seriesLog' = [seriesLog EXCEPT ![candleSeriesRef] = Logged(@, "update")]
                /\ run' = RunAfter(run, timestamp, price)
       ELSE UNCHANGED <<currentPrice, currentCandleRef, candleData, series,
                        seriesLog, run>>
    /\ UNCHANGED <<reactVars, chartVars, volumeSeries, load, settled,
                   isHistoricalLoaded, status, errorMessage, socketVars, tzOffset>>

\* ws.onerror, lines 302-305: the transport failed; the close event follows
WsError ==
    /\ readyState \in {"connecting", "open"}
    /\ readyState' = "errored"
    /\ status' = SetState(status, "Connection error")
    /\ UNCHANGED <<reactVars, chartVars, series, volumeSeries, load, settled,
                   isHistoricalLoaded, errorMessage, currentPrice, wsRef,
                   heartbeatInterval, sent, closeRequested, tickVars, seriesLog,
                   tzOffset>>

\* variant: the close handler also drops the in-progress candle
WsClose_DropsCandle ==
    /\ readyState \in {"connecting", "open", "closing", "errored"}
    /\ readyState' = "closed"
    /\ heartbeatInterval' = FALSE
    /\ status' = SetState(status, "Disconnected")
    /\ currentCandleRef' = <<>>
    /\ UNCHANGED <<reactVars, chartVars, series, volumeSeries, load, settled,
                   isHistoricalLoaded, errorMessage, currentPrice, wsRef, sent,
                   closeRequested, data, candleData, nMsgs, run, seriesLog, tzOffset>>

\* ws.onclose, lines 242-248: the transport closed, after close(), after a
\* failure, or from the server's side
WsClose ==
    /\ readyState \in {"connecting", "open", "closing", "errored"}
    /\ readyState' = "closed"
    /\ heartbeatInterval' = FALSE
    /\ status' = SetState(status, "Disconnected")
    /\ UNCHANGED <<reactVars, chartVars, series, volumeSeries, load, settled,
                   isHistoricalLoaded, errorMessage, currentPrice, wsRef, sent,
                   closeRequested, tickVars, seriesLog, tzOffset>>

-----------------------------------------------------------------------------
(* The component from its first commit on.                                 *)

\* the feed delivers a message
Deliver == \E msg \in Messages : nMsgs < MaxMsgs /\ WsMessage(msg)

Next ==
    \/ ThemeChange
    \/ Commit
    \/ Unmount
    \/ \E g \in Charts : FetchRejected(g)
    \/ \E g \in Charts, resp \in Responses : LoadNoData(g, resp)
    \/ \E g \in Charts, resp \in Responses : LoadData(g, resp)
    \/ \E g \in Charts, resp \in Responses : LoadDataDisposed(g, resp)
    \/ WsOpen
    \/ Heartbeat
    \/ Deliver
    \/ WsError
    \/ WsClose

Spec == Init /\ [][Next]_vars

-----------------------------------------------------------------------------
(* The live phase alone: the historical load succeeded, the socket opened  *)
(* and the feed delivers ticks of the subscribed symbol.                   *)

LiveInit ==
    /\ tzOffset \in LiveTzOffsets
    /\ theme = "light"
    /\ depTheme = "light"
    /\ depLoaded = TRUE
    /\ mounted = TRUE
    /\ themeChanges = 0
    /\ chart = 1
    /\ removed = {}
    /\ candleSeriesRef = 1
    /\ load = [g \in Charts |-> IF g = 1 THEN "returned" ELSE "idle"]
    /\ \E resp \in {r \in Responses : ~NoValues(r)} :
          \E candles \in Normalized(MapCandles(resp.values[1])),
             volumes \in Normalized(MapVolumes(resp.values[1])) :
             /\ settled = Settled(1, "loaded", <<resp>>, candles, volumes)
             /\ series = [g \in Charts |-> IF g = 1 THEN replaceAll(<<>>, candles) ELSE <<>>]
             /\ currentPrice = IF Len(candles) > 0
                               THEN <<candles[Len(candles)].close>> ELSE <<>>
    /\ volumeSeries = [g \in Charts |-> <<>>]
    /\ isHistoricalLoaded = TRUE
    /\ status = "Live"
    /\ errorMessage = <<>>
    /\ wsRef = <<"ws">>
    /\ readyState = "open"
    /\ heartbeatInterval = TRUE
    /\ sent = "subscribe"
    /\ closeRequested = FALSE
    /\ currentCandleRef = InitialCandleRef
    /\ data = <<>>
    /\ candleData = <<>>
    /\ nMsgs = 0
    /\ run = <<>>
    /\ seriesLog = [g \in Charts |-> IF g = 1 THEN <<"setData">> ELSE <<>>]

LiveTick == \E msg \in LiveMessages : nMsgs < MaxLiveMsgs /\ WsMessage(msg)

SpecLive == LiveInit /\ [][LiveTick]_vars

\* the same with a tick at any second up to MaxTimestamp
WideTick == \E msg \in WideMessages : nMsgs < MaxWideMsgs /\ WsMessage(msg)

SpecWide == LiveInit /\ [][WideTick]_vars

-----------------------------------------------------------------------------
(* The historical load alone, over every batch of up to MaxBatch records.  *)

HistRecords ==
    {TwelveDataCandle(dt, o, s110, s90, s100, v) :
        dt \in {<<"0">>, <<"1">>, <<"2">>}, o \in {s90, s110}, v \in {s100}}
    \cup {TwelveDataCandle(sBad, s90, s110, s90, s100, s100),
          TwelveDataCandle(<<"1">>, sBad, s110, s90, s100, s100)}

Batches == UNION {[1..n -> HistRecords] : n \in 1..MaxBatch}

BatchResponses == {Response(<<b>>, <<>>, <<>>) : b \in Batches}

LoadBatch == \E resp \in BatchResponses : LoadData(1, resp)

SpecNorm == Init /\ [][LoadBatch]_vars

-----------------------------------------------------------------------------
(* Properties.                                                             *)

OhlcOrdered(c) ==
    /\ c.low <= Min(c.open, c.close)
    /\ Min(c.open, c.close) <= Max(c.open, c.close)
    /\ Max(c.open, c.close) <= c.high

StrictlyIncreasingByTime(s) ==
    \A i \in 1..(Len(s) - 1) : s[i].time < s[i + 1].time

MaxOf(p) == CHOOSE x \in {p[i] : i \in 1..Len(p)} : \A i \in 1..Len(p) : x >= p[i]

MinOf(p) == CHOOSE x \in {p[i] : i \in 1..Len(p)} : \A i \in 1..Len(p) : x <= p[i]

\* a tick of the subscribed symbol
IsMatchingTick(msg) == msg.event = "price" /\ msg.symbol = "BTC/USD"

\* the start of the interval a timestamp lies in, and its display time
BucketStartOf(t) == BucketIndex(t) * CANDLE_INTERVAL

DisplayTimeOf(t) == t - tzOffset * 60

FlatCandle(time, price) ==
    [time |-> time, open |-> price, high |-> price, low |-> price, close |-> price]

\* C1: the in-progress candle, when there is one, and the candle handed to
\* the series by a tick both satisfy low <= min(open, close) <=
\* max(open, close) <= high, whatever ticks were delivered.
C1_OhlcOrdered ==
    /\ currentCandleRef /= <<>> => OhlcOrdered(currentCandleRef[1])
    /\ candleData /= <<>> => OhlcOrdered(candleData[1])

\* C1, witness: a candle whose high and low both lie strictly outside its
\* open and close was built and handed to the series
C1_Witness ==
    /\ currentCandleRef /= <<>>
    /\ candleData /= <<>>
    /\ LET c == currentCandleRef[1]
       IN  /\ c.low < Min(c.open, c.close)
           /\ Max(c.open, c.close) < c.high
           /\ c.open /= c.close
           /\ candleData[1].high = c.high
           /\ candleData[1].low = c.low

\* C2: a series that received one setData with the normalized historical
\* candles and then one update per tick is strictly increasing by time, so
\* it holds at most one candle per time.
C2_SeriesStrictlyIncreasing ==
    \A g \in Charts :
        seriesLog[g] \in {<<"setData">>, <<"setData", "update">>}
            => StrictlyIncreasingByTime(series[g])

\* C3: on every series the calls are one setData and then updates: no
\* update comes before the setData of that series has returned, and no
\* setData comes after an update.
C3_LiveGatedOnLoad ==
    \A g \in Charts :
        seriesLog[g] \in {<<>>, <<"setData">>, <<"setData", "update">>}

\* C4: after a run of ticks of one bucket b that began with the in-progress
\* candle absent or on another bucket, the in-progress candle has
\* timestamp b, the first price of the run as open, the greatest as high,
\* the least as low and the last as close.
C4_RunAggregation ==
    run /= <<>> =>
        /\ currentCandleRef /= <<>>
        /\ LET c == currentCandleRef[1]
               p == run[1].prices
           IN  /\ c.timestamp = run[1].bucket * CANDLE_INTERVAL
               /\ c.open = p[1]
               /\ c.high = MaxOf(p)
               /\ c.low = MinOf(p)
               /\ c.close = p[Len(p)]

\* C4, witness: the ticks (0,100), (30,110), (59,90) gave the candle
\* {open 100, high 110, low 90, close 90} of bucket 0
C4_Witness ==
    /\ run /= <<>>
    /\ run[1].bucket = 0
    /\ run[1].prices = <<100, 110, 90>>
    /\ data /= <<>>
    /\ data[1].timestamp = 59
    /\ currentCandleRef = <<[timestamp |-> 0, open |-> 100, high |-> 110,
                             low |-> 90, close |-> 90, lastUpdate |-> 59]>>

\* C5: a tick of the subscribed symbol whose bucket differs from the
\* in-progress candle's and is later than the last entry of the series
\* replaces the in-progress candle by one with open = high = low = close =
\* price at the tick's bucket, and appends that candle to the series: the
\* entries the series had, the former in-progress one included, stay as
\* they were, and no other series changes.
C5_BucketTransition ==
    [][ LET s == series[candleSeriesRef]
        IN  ( /\ nMsgs' = nMsgs + 1
              /\ IsMatchingTick(data'[1])
              /\ currentCandleRef /= <<>>
              /\ currentCandleRef[1].timestamp /= BucketStartOf(data'[1].timestamp)
              /\ s /= <<>>
              /\ s[Len(s)].time < DisplayTimeOf(BucketStartOf(data'[1].timestamp)) )
            => /\ currentCandleRef' =
                    <<[timestamp  |-> BucketStartOf(data'[1].timestamp),
                       open       |-> data'[1].price,
                       high       |-> data'[1].price,
                       low        |-> data'[1].price,
                       close      |-> data'[1].price,
                       lastUpdate |-> data'[1].timestamp]>>
               /\ series' = [series EXCEPT ![candleSeriesRef] =
                    Append(s, FlatCandle(DisplayTimeOf(BucketStartOf(data'[1].timestamp)),
                                         data'[1].price))]
      ]_vars

\* C5, witness: in UTC, after the ticks (0,100), (30,110) built bucket 0,
\* the tick (60,95) left bucket 0 as it was and appended bucket 60
C5_Witness ==
    /\ tzOffset = 0
    /\ series[1] = <<[time |-> 0, open |-> 100, high |-> 110, low |-> 100, close |-> 110],
                     FlatCandle(60, 95)>>
    /\ currentCandleRef /= <<>>
    /\ currentCandleRef[1].timestamp = 60
    /\ currentCandleRef[1].open = 95

\* C6: a message whose event is not "price" or whose symbol is not the
\* subscribed one changes neither the in-progress candle (lastUpdate
\* included), nor any series, nor the displayed price, nor the status.
C6_ForeignMessageIgnored ==
    [][ ( /\ nMsgs' = nMsgs + 1
          /\ data'[1].event /= "price" \/ data'[1].symbol /= "BTC/USD" )
        => UNCHANGED <<currentCandleRef, candleData, series, seriesLog,
                       currentPrice, status, readyState>>
      ]_vars

\* C6, witness: a tick of another symbol was handled after a candle had
\* been started
C6_Witness ==
    /\ data /= <<>>
    /\ data[1].event = "price"
    /\ data[1].symbol = "ETH/USD"
    /\ currentCandleRef /= <<>>
    /\ currentCandleRef[1].close /= data[1].price

\* C7: when the body read by a load has no values list or an empty one,
\* the load calls no setData, leaves every series as it is, does not set
\* isHistoricalLoaded and touches no socket; the status becomes "Error" and
\* the error message is the body's message when it has one, else its code
\* when it has one, else "No data available".
C7_NoValuesIsError ==
    [][ \A g \in Charts :
          ( /\ load[g] = "fetching"
            /\ load'[g] = "returned"
            /\ settled'[1].data /= <<>>
            /\ LET v == settled'[1].data[1].values
               IN  IF v = <<>> THEN TRUE ELSE v[1] = <<>> )
          => /\ settled'[1].chart = g
             /\ settled'[1].outcome = "nodata"
             /\ UNCHANGED <<series, seriesLog, isHistoricalLoaded, wsRef, readyState>>
             /\ mounted =>
                  /\ status' = "Error"
                  /\ errorMessage' =
                        LET r == settled'[1].data[1]
                        IN  IF r.message /= <<>> THEN r.message
                            ELSE IF r.code /= <<>> THEN r.code
                            ELSE <<"No data available">>
      ]_vars

\* C7, witness: a body with a message and a code was read while the series
\* of its chart held candles; the message is shown and the candles remain
C7_Witness ==
    /\ settled /= <<>>
    /\ settled[1].outcome = "nodata"
    /\ settled[1].data[1].message = <<"Invalid API key">>
    /\ settled[1].data[1].code = <<"401">>
    /\ series[settled[1].chart] /= <<>>
    /\ status = "Error"
    /\ errorMessage = <<"Invalid API key">>

\* a field that is a decimal number written in full
ParsableField(f) == f /= <<>> /\ \A i \in 1..Len(f) : IsDigit(f[i])

WellFormedRecord(v) ==
    /\ ParsableField(v.datetime)
    /\ ParsableField(v.open)
    /\ ParsableField(v.high)
    /\ ParsableField(v.low)
    /\ ParsableField(v.close)
    /\ ParsableField(v.volume)

\* C8: a batch with a record whose datetime or whose numeric field does
\* not parse fails as a whole: the load that read it does not end with
\* setData called and isHistoricalLoaded set.
C8_MalformedBatchFails ==
    ( /\ settled /= <<>>
      /\ settled[1].data /= <<>>
      /\ settled[1].data[1].values /= <<>>
      /\ \E i \in 1..Len(settled[1].data[1].values[1]) :
            ~WellFormedRecord(settled[1].data[1].values[1][i]) )
    => settled[1].outcome /= "loaded"

\* C9: the bucket computed for a tick at second t is a multiple of the
\* interval and lies in (t - interval, t]; the in-progress candle's
\* timestamp is a multiple of the interval.
C9_BucketAligned ==
    (currentCandleRef /= <<>> /\ data /= <<>>) =>
        LET b == currentCandleRef[1].timestamp
            t == data[1].timestamp
        IN  /\ b % CANDLE_INTERVAL = 0
            /\ b <= t
            /\ t < b + CANDLE_INTERVAL

\* C9, witness: a tick at the last second of an interval, after a tick at
\* the first second of another one
C9_Witness ==
    /\ currentCandleRef /= <<>>
    /\ data /= <<>>
    /\ data[1].timestamp = 119
    /\ currentCandleRef[1].timestamp = 60
    /\ nMsgs = 2
    /\ series[1][Len(series[1])].time = DisplayTimeOf(60)

\* `out` is `items` sorted and de-duplicated: strictly increasing by time,
\* one entry per time of `items`, the entry of a time being the first of
\* `items` with that time
NormalizedFrom(out, items) ==
    /\ StrictlyIncreasingByTime(out)
    /\ {out[i].time : i \in 1..Len(out)} = {items[j].time : j \in 1..Len(items)}
    /\ \A i \in 1..Len(out) :
          \E j \in 1..Len(items) :
             /\ items[j] = out[i]
             /\ \A k \in 1..(j - 1) : items[k].time /= out[i].time

\* C10: for a batch of well-formed records, in any order and with repeated
\* datetimes, the normalized candles and the normalized volumes are each
\* strictly increasing by time, hold one entry per datetime of the batch,
\* and the entry of a datetime comes from the first record with it.
C10_NormalizedBatch ==
    ( /\ settled /= <<>>
      /\ settled[1].outcome = "loaded"
      /\ \A i \in 1..Len(settled[1].data[1].values[1]) :
            WellFormedRecord(settled[1].data[1].values[1][i]) )
    => /\ NormalizedFrom(settled[1].candles, MapCandles(settled[1].data[1].values[1]))
       /\ NormalizedFrom(settled[1].volumes, MapVolumes(settled[1].data[1].values[1]))

\* C10, witness: three well-formed records, the first and the third with
\* one datetime and different opens, the second earlier: two candles are
\* left and the later one comes from the first record
C10_Witness ==
    /\ settled /= <<>>
    /\ settled[1].outcome = "loaded"
    /\ LET values == settled[1].data[1].values[1]
       IN  /\ Len(values) = 3
           /\ \A i \in 1..3 : WellFormedRecord(values[i])
           /\ values[1].datetime = values[3].datetime
           /\ values[1].open /= values[3].open
           /\ values[2].datetime = <<"0">>
           /\ values[1].datetime = <<"2">>
           /\ Len(settled[1].candles) = 2
           /\ settled[1].candles[2] = MapCandles(values)[1]
           /\ settled[1].volumes[2] = MapVolumes(values)[1]
           /\ settled[1].volumes[2].color /= MapVolumes(values)[3].color

\* candles to try upsertLast with: flat candles at the display times of the
\* first buckets
UpsertCandles ==
    {FlatCandle(DisplayTimeOf(b * CANDLE_INTERVAL), p) : b \in 0..2, p \in {90, 110}}

UpsertIdempotentOn(s) ==
    \A c \in UpsertCandles :
        upsertLast(upsertLast(s, c), c) = upsertLast(s, c)

\* C11: on every series the component builds and for every candle,
\* upsertLast applied twice with the candle gives what applying it once
\* gives; and a tick for which the aggregator hands out the candle it handed
\* out for the tick before leaves the series as it was.
C11_UpsertIdempotent ==
    /\ [](\A g \in Charts : UpsertIdempotentOn(series[g]))
    /\ [][ ( /\ run' /= run
              /\ candleData /= <<>>
              /\ candleData' = candleData
              /\ seriesLog[candleSeriesRef][Len(seriesLog[candleSeriesRef])] = "update" )
            => series' = series
          ]_vars

\* C11, witness: two ticks of one price in one bucket later than the
\* history: the second one handed out the candle of the first, and the
\* series holds the history and that one candle
C11_Witness ==
    /\ run /= <<>>
    /\ run[1].prices = <<100, 100>>
    /\ nMsgs = 2
    /\ candleData = <<FlatCandle(DisplayTimeOf(120), 100)>>
    /\ series[1] = Append(settled[1].candles, candleData[1])
    /\ settled[1].candles /= <<>>

\* C12: once close() was called on the socket by a cleanup (chart
\* recreation or unmount), no tick changes the in-progress candle, is
\* handed to a series or is counted, and no command is sent; and a
\* heartbeat is sent only from a state in which the socket is open.
C12_TeardownStopsFeed ==
    [][ /\ closeRequested =>
              /\ UNCHANGED <<currentCandleRef, candleData, run, sent>>
              /\ \A g \in Charts :
                    \/ seriesLog'[g] = seriesLog[g]
                    \/ seriesLog'[g] = Append(seriesLog[g], "setData")
        /\ (sent' /= sent /\ sent' = "heartbeat") => readyState = "open"
      ]_vars

\* C12, witness: the theme switched while the feed was live and had built
\* a candle: the socket is closing, the component is mounted, the interval
\* is still armed and no heartbeat has been sent
C12_Witness ==
    /\ closeRequested
    /\ mounted
    /\ removed /= {}
    /\ readyState = "closing"
    /\ heartbeatInterval
    /\ sent = "subscribe"
    /\ currentCandleRef /= <<>>

\* C13: the close event and the error event of the socket leave every
\* series, the in-progress candle, the displayed price, the load flag and
\* the error message as they were; while the component is mounted the
\* status becomes "Disconnected" on close and "Connection error" on error.
C13_TransportEventsKeepState ==
    [][ ( /\ readyState' /= readyState
          /\ readyState' \in {"closed", "errored"} )
        => /\ UNCHANGED <<series, volumeSeries, currentCandleRef, candleData,
                          currentPrice, isHistoricalLoaded, errorMessage, run>>
           /\ mounted =>
                status' = IF readyState' = "closed" THEN "Disconnected"
                          ELSE "Connection error"
      ]_vars

\* C13, witness: the socket closed after the feed had built a candle on
\* top of the history; candle and series are still there
C13_Witness ==
    /\ readyState = "closed"
    /\ status = "Disconnected"
    /\ ~closeRequested
    /\ currentCandleRef /= <<>>
    /\ candleData /= <<>>
    /\ Len(series[candleSeriesRef]) >= 2
    /\ series[candleSeriesRef][Len(series[candleSeriesRef])] = candleData[1]

\* C14: a tick of the subscribed symbol is taken into the in-progress
\* candle and a series only from a state whose status is "Live".
C14_TicksOnlyWhileLive ==
    [][ run' /= run => status = "Live" ]_vars

\* C15: when the load of the current chart has completed with setData and
\* React has committed every pending change, the feed is attached for that
\* chart: there is a socket on which no cleanup has called close().
C15_LoadedFeedAttached ==
    ( /\ mounted
      /\ settled /= <<>>
      /\ settled[1].outcome = "loaded"
      /\ settled[1].chart = chart
      /\ load[chart] = "returned"
      /\ depTheme = theme
      /\ depLoaded = isHistoricalLoaded )
    => /\ wsRef /= <<>>
       /\ ~closeRequested

\* the load of the current chart ended in the error state, no load of an
\* earlier chart is still running and React has nothing left to commit
LoadFailed ==
    /\ mounted
    /\ settled /= <<>>
    /\ settled[1].outcome \in {"failed", "nodata"}
    /\ settled[1].chart = chart
    /\ \A g \in Charts : load[g] /= "fetching"
    /\ depTheme = theme
    /\ depLoaded = isHistoricalLoaded
    /\ status = "Error"

\* C16: once the load of the current chart has ended in the error state
\* (every load having returned), and as long as the theme is not switched
\* and the component stays mounted, the status stays "Error", no load is
\* started, no setData or update reaches a series, no socket is created or
\* opened and no tick is ingested.
C16_FailedLoadTerminal ==
    [][ (LoadFailed /\ theme' = theme /\ mounted')
        => /\ status' = "Error"
           /\ \A g \in Charts : load'[g] = "fetching" => load[g] = "fetching"
           /\ UNCHANGED <<series, seriesLog, wsRef, run, currentCandleRef>>
           /\ readyState' \notin {"connecting", "open"} \/ readyState' = readyState
      ]_vars

\* C17: a tick of the subscribed symbol whose bucket is not the in-progress
\* candle's, older buckets included, replaces the in-progress candle by a
\* flat candle at the tick's bucket (open = high = low = close = price),
\* and that candle, at its display time, is the one handed to the series;
\* so a tick back in a bucket left before starts it again from its own
\* price.
C17_OutOfOrderStartsNewCandle ==
    [][ ( /\ run' /= run
          /\ currentCandleRef /= <<>>
          /\ currentCandleRef[1].timestamp /= BucketStartOf(data'[1].timestamp) )
        => LET b == BucketStartOf(data'[1].timestamp)
               p == data'[1].price
           IN  /\ currentCandleRef' = <<[timestamp |-> b, open |-> p, high |-> p,
                                        low |-> p, close |-> p,
                                        lastUpdate |-> data'[1].timestamp]>>
               /\ candleData' = <<FlatCandle(DisplayTimeOf(b), p)>>
      ]_vars

\* C17, witness: in UTC the ticks (60,110), (60,90), (0,100), (60,95): the
\* candle of bucket 60 was left for the older bucket 0, and the tick back
\* in bucket 60 started a flat candle at 95 instead of resuming
\* {open 110, low 90}
C17_Witness ==
    /\ tzOffset = 0
    /\ nMsgs = 4
    /\ currentCandleRef = <<[timestamp |-> 60, open |-> 95, high |-> 95, low |-> 95,
                             close |-> 95, lastUpdate |-> 60]>>
    /\ Len(series[1]) >= 3
    /\ LET n == Len(series[1])
       IN  /\ series[1][n] = FlatCandle(60, 95)
           /\ series[1][n - 1] = FlatCandle(0, 100)
           /\ series[1][n - 2] = [time |-> 60, open |-> 110, high |-> 110,
                                  low |-> 90, close |-> 90]

\* C18: when the load that returned last has completed with setData on a
\* chart that still exists and no tick has reached that chart's series
\* since, the candle series is the normalized candle sequence and the
\* volume series is the normalized volume sequence.
C18_BothSeriesReplaced ==
    \A g \in Charts :
        ( /\ settled /= <<>>
          /\ settled[1].outcome = "loaded"
          /\ settled[1].chart = g
          /\ g \notin removed
          /\ seriesLog[g] = <<"setData">> )
        => /\ series[g] = settled[1].candles
           /\ volumeSeries[g] = settled[1].volumes

\* C19: a tick of the subscribed symbol issues one update: the series
\* grows by at most one entry and its entries but the last stay as they
\* were, the candle handed over is the in-progress candle at the display
\* time of its bucket, and the last entry of the series is that candle.
C19_LastEntryIsInProgress ==
    [][ run' /= run =>
          LET s   == series[candleSeriesRef]
              t   == series'[candleSeriesRef]
              cur == currentCandleRef'[1]
              cd  == [time  |-> DisplayTimeOf(cur.timestamp),
                      open  |-> cur.open,
                      high  |-> cur.high,
                      low   |-> cur.low,
                      close |-> cur.close]
          IN  /\ candleData' = <<cd>>
              /\ t /= <<>>
              /\ t[Len(t)] = cd
              /\ Len(t) \in {Len(s), Len(s) + 1}
              /\ \A i \in 1..(Len(t) - 1) : i <= Len(s) /\ t[i] = s[i]
              /\ \A g \in Charts : g /= candleSeriesRef => series'[g] = series[g]
      ]_vars

\* C19, witness: in UTC+1, after three ticks of one bucket later than the
\* history, the last entry of the series is the in-progress candle, with
\* a high above and a low below its open, one hour ahead of its bucket
C19_Witness ==
    /\ tzOffset = 0 - 60
    /\ run /= <<>>
    /\ Len(run[1].prices) = 3
    /\ currentCandleRef /= <<>>
    /\ currentCandleRef[1].timestamp = 120
    /\ currentCandleRef[1].low < currentCandleRef[1].open
    /\ currentCandleRef[1].open < currentCandleRef[1].high
    /\ Len(series[1]) = Len(settled[1].candles) + 1
    /\ series[1][Len(series[1])].time = 3720
    /\ series[1][Len(series[1])].high = currentCandleRef[1].high

\* C20: when the first tick of the subscribed symbol arrives there is no
\* in-progress candle, whatever history was loaded; if the tick's bucket
\* is that of the last entry of the series, that entry is overwritten by
\* the flat candle of the tick (open = high = low = close = price) and the
\* series keeps its length and its other entries.
C20_FirstTickOverwritesHistory ==
    [][ (run = <<>> /\ run' /= run) =>
          LET s == series[candleSeriesRef]
              b == BucketStartOf(data'[1].timestamp)
              p == data'[1].price
          IN  /\ currentCandleRef = <<>>
              /\ (s /= <<>> /\ s[Len(s)].time = DisplayTimeOf(b))
                    => series' = [series EXCEPT ![candleSeriesRef] =
                                    [s EXCEPT ![Len(s)] = FlatCandle(DisplayTimeOf(b), p)]]
      ]_vars

\* C20, witness: the history ended with a candle {open 100, high 110,
\* low 90, close 110}; the first tick, in that candle's bucket at price 90,
\* left a flat candle at 90 in its place and the series has the length of
\* the history
C20_Witness ==
    /\ run /= <<>>
    /\ run[1].prices = <<90>>
    /\ settled /= <<>>
    /\ settled[1].outcome = "loaded"
    /\ settled[1].chart = candleSeriesRef
    /\ seriesLog[candleSeriesRef] = <<"setData", "update">>
    /\ LET h == settled[1].candles
           s == series[candleSeriesRef]
       IN  /\ Len(h) = 2
           /\ Len(s) = 2
           /\ h[2].high = 110
           /\ h[2].open = 100
           /\ s[1] = h[1]
           /\ s[2] = FlatCandle(h[2].time, 90)

====
